---- MODULE Spec2Model ----
(***************************************************************************)
(* Model of erkomaishvili_analysis.py: the mode extractor, the per-measure *)
(* ("mukhli") mode aggregator, the melodic pattern matcher and the corpus  *)
(* driver.  Pitches, intervals and streams are the parts of music21 that   *)
(* the program calls; they are modelled by what those calls compute.       *)
(***************************************************************************)
EXTENDS Integers, Sequences, FiniteSets, TLC

VARIABLES
    hashOrder,          \* iteration order of str sets in the running process
    em_notes,           \* extract_mode: argument notes
    em_center,          \* extract_mode: argument center_note
    em_result,          \* extract_mode: returned string
    em_done,            \* extract_mode: has returned
    gm_voices,          \* get_mukhli_modes: self.voices
    gm_result,          \* get_mukhli_modes: returned list
    gm_done,            \* get_mukhli_modes: has returned
    fp_voices,          \* find_melodic_patterns: self.voices
    fp_gch_id,          \* find_melodic_patterns: self.gch_id
    fp_voice_idx,       \* find_melodic_patterns: voices scanned so far
    fp_patterns,        \* find_melodic_patterns: patterns
    dirExists,          \* os.path.exists("data")
    directory,          \* sorted(os.listdir(directory)), as files
    run,                \* which of two runs over the directory
    phase,              \* position of the run in process_chant_files
    pos,                \* files of the current pass already handled
    max_mukhlis,
    chant_numbers,
    full_modes_data,
    mukhli_modes_data,
    patterns_data,
    output              \* per run: the tables written, or NoOutput

emVars == <<em_notes, em_center, em_result, em_done>>

gmVars == <<gm_voices, gm_result, gm_done>>

fpVars == <<fp_voices, fp_gch_id, fp_voice_idx, fp_patterns>>

drVars == <<dirExists, directory, run, phase, pos, max_mukhlis, chant_numbers,
            full_modes_data, mukhli_modes_data, patterns_data, output>>

vars == <<hashOrder, emVars, gmVars, fpVars, drVars>>

(***************************************************************************)
(* Bounds                                                                  *)
(***************************************************************************)
MaxLen == 3           \* longest note sequence handed to extract_mode

MaxMeasures == 2      \* most measures of a chant given to get_mukhli_modes

MaxNotes == 6         \* longest voice given to find_melodic_patterns

MaxFiles == 3         \* most files in the input directory

(***************************************************************************)
(* Pitches (music21.pitch.Pitch)                                           *)
(***************************************************************************)
Steps == <<"C", "D", "E", "F", "G", "A", "B">>

StepSemis == <<0, 2, 4, 5, 7, 9, 11>>

RECURSIVE StepIndexFrom(_, _)
StepIndexFrom(letter, k) ==
    IF k > 7 THEN 0
    ELSE IF Steps[k] = letter THEN k ELSE StepIndexFrom(letter, k + 1)

StepIndex(letter) == StepIndexFrom(letter, 1)

\* accidental suffix of a pitch name: '#' sharp, '-' flat
AccStr(acc) ==
    CASE acc = 0 -> ""
      [] acc = 1 -> "#"
      [] acc = 2 -> "##"
      [] acc = -1 -> "-"
      [] acc = -2 -> "--"

AccOf(suffix) ==
    CASE suffix = "" -> 0
      [] suffix = "#" -> 1
      [] suffix = "##" -> 2
      [] suffix = "-" -> -1
      [] suffix = "--" -> -2

Pit(step, acc, octave) == [step |-> step, acc |-> acc, octave |-> octave]

\* n.pitch.name: step letter and accidental, no octave
PitchName(p) == p.step \o AccStr(p.acc)

\* pitch.ps: C4 = 60
PitchPs(p) == 12 * (p.octave + 1) + StepSemis[StepIndex(p.step)] + p.acc

\* pitch.diatonicNoteNum
DiatonicNoteNum(p) == 7 * p.octave + StepIndex(p.step)

\* music21.pitch.Pitch(name) for a name without octave: implicit octave 4
ParsePitch(name) ==
    Pit(SubSeq(name, 1, 1), AccOf(SubSeq(name, 2, Len(name))), 4)

Note(p, lyrics) == [pitch |-> p, lyrics |-> lyrics]

(***************************************************************************)
(* Python helpers                                                          *)
(***************************************************************************)
RECURSIVE SeqToSet(_)
SeqToSet(s) == IF s = <<>> THEN {} ELSE {Head(s)} \cup SeqToSet(Tail(s))

RECURSIVE SelectIn(_, _)
SelectIn(s, S) ==
    IF s = <<>> THEN <<>>
    ELSE IF Head(s) \in S THEN <<Head(s)>> \o SelectIn(Tail(s), S)
         ELSE SelectIn(Tail(s), S)

\* iterating a set of str: the order is fixed by the process's string hashing
SetIter(S, order) == SelectIn(order, S)

RECURSIVE Index(_, _, _)
Index(s, x, k) ==
    IF k > Len(s) THEN 0
    ELSE IF s[k] = x THEN k ELSE Index(s, x, k + 1)

\* list.index(x), 1-based
ListIndex(s, x) == Index(s, x, 1)

RECURSIVE Join(_)
Join(s) ==
    IF s = <<>> THEN ""
    ELSE IF Len(s) = 1 THEN s[1]
         ELSE s[1] \o " " \o Join(Tail(s))

RECURSIVE SplitFrom(_, _, _, _)
SplitFrom(str, sep, from, k) ==
    IF k > Len(str) THEN <<SubSeq(str, from, Len(str))>>
    ELSE IF SubSeq(str, k, k) = sep
         THEN <<SubSeq(str, from, k - 1)>> \o SplitFrom(str, sep, k + 1, k + 1)
         ELSE SplitFrom(str, sep, from, k + 1)

\* str.split(sep) for a one-character separator
SplitBy(str, sep) == SplitFrom(str, sep, 1, 1)

\* the space-separated elements of a mode string; '' has none
Split(str) == IF str = "" THEN <<>> ELSE SplitBy(str, " ")

\* str(n) for the small integers the program formats
IntStr(n) ==
    <<"1", "2", "3", "4", "5", "6", "7", "8", "9", "10", "11", "12",
      "13", "14", "15", "16", "17", "18", "19", "20">>[n]

(***************************************************************************)
(* ChantAnalyzer.extract_mode                                              *)
(***************************************************************************)
ModeKey(x, center_pc) ==
    (PitchPs(ParsePitch(x)) - PitchPs(ParsePitch(center_pc))) % 12

RECURSIVE InsertStable(_, _, _)
InsertStable(x, sorted, center_pc) ==
    IF sorted = <<>> THEN <<x>>
    ELSE IF ModeKey(Head(sorted), center_pc) <= ModeKey(x, center_pc)
         THEN <<Head(sorted)>> \o InsertStable(x, Tail(sorted), center_pc)
         ELSE <<x>> \o sorted

RECURSIVE SortFrom(_, _, _)
SortFrom(s, acc, center_pc) ==
    IF s = <<>> THEN acc
    ELSE SortFrom(Tail(s), InsertStable(Head(s), acc, center_pc), center_pc)

\* sorted(pitch_classes, key=...): stable, over the set's iteration order
SortedPitches(pitch_classes, center_pc, order) ==
    SortFrom(SetIter(pitch_classes, order), <<>>, center_pc)

RotateKeepOrder(sorted_pitches, start_idx) == sorted_pitches

RotateDropHead(sorted_pitches, start_idx) ==
    SubSeq(sorted_pitches, start_idx, Len(sorted_pitches))

\* sorted_pitches[start_idx:] + sorted_pitches[:start_idx]
Rotate(sorted_pitches, start_idx) ==
    SubSeq(sorted_pitches, start_idx, Len(sorted_pitches))
        \o SubSeq(sorted_pitches, 1, start_idx - 1)

PitchClasses(notes, center_note) ==
    {PitchName(notes[k].pitch) : k \in 1..Len(notes)}
        \cup {PitchName(center_note.pitch)}

ModeList(notes, center_note, order) ==
    LET center_pc == PitchName(center_note.pitch)
        sorted_pitches ==
            SortedPitches(PitchClasses(notes, center_note), center_pc, order)
    IN  Rotate(sorted_pitches, ListIndex(sorted_pitches, center_pc))

\* the names are those of parsed pitches, so Pitch(x) does not raise and the
\* except branch is not taken
extract_mode(notes, center_note, order) ==
    IF notes = <<>> THEN "" ELSE Join(ModeList(notes, center_note, order))

(***************************************************************************)
(* Intervals (music21.interval.Interval(noteStart, noteEnd))               *)
(***************************************************************************)
Abs(n) == IF n < 0 THEN -n ELSE n

Sign(n) == IF n < 0 THEN -1 ELSE IF n > 0 THEN 1 ELSE 0

\* interval.semitones: directed chromatic size
Semitones(a, b) == PitchPs(b.pitch) - PitchPs(a.pitch)

\* directed staff distance of the generic interval
StaffDistance(a, b) == DiatonicNoteNum(b.pitch) - DiatonicNoteNum(a.pitch)

Perfectable(simple) == simple \in {1, 4, 5}

Specifier(simple, offset) ==
    IF Perfectable(simple)
    THEN CASE offset = 0 -> "P"
           [] offset = 1 -> "A"
           [] offset = 2 -> "AA"
           [] offset = -1 -> "d"
           [] offset = -2 -> "dd"
           [] OTHER -> "?"
    ELSE CASE offset = 0 -> "M"
           [] offset = -1 -> "m"
           [] offset = 1 -> "A"
           [] offset = 2 -> "AA"
           [] offset = -2 -> "d"
           [] offset = -3 -> "dd"
           [] OTHER -> "?"

\* interval.name: quality and undirected number, e.g. 'P5', 'm3', 'AA4'
IntervalName(a, b) ==
    LET g == StaffDistance(a, b)
        c == Semitones(a, b)
        undirected == Abs(g) + 1
        simple == ((undirected - 1) % 7) + 1
        octaves == (undirected - 1) \div 7
        normalSemis == StepSemis[simple] + 12 * octaves
        theseSemis ==
            IF Sign(g) # Sign(c) /\ g # 0 /\ c # 0 THEN -Abs(c)
            ELSE IF undirected = 1 THEN c
            ELSE Abs(c)
    IN  Specifier(simple, theseSemis - normalSemis) \o IntStr(undirected)

(***************************************************************************)
(* Voices: a part is a sequence of measures, a measure holds its notes     *)
(***************************************************************************)
Measure(notes) == [exists |-> TRUE, notes |-> notes]

NoMeasure == [exists |-> FALSE, notes |-> <<>>]

RECURSIVE Flatten(_)
Flatten(measures) ==
    IF measures = <<>> THEN <<>>
    ELSE (IF Head(measures).exists THEN Head(measures).notes ELSE <<>>)
            \o Flatten(Tail(measures))

\* get_notes_in_voice on a part: every note of every measure, in order
get_notes_in_voice(voice) == Flatten(voice)

\* 0-based list access, as the program indexes
At(notes, k) == notes[k + 1]

HasQnr(n) == Len(n.lyrics) > 1

\* n.lyrics[1].text
Qnr(n) == n.lyrics[2]

(***************************************************************************)
(* ChantAnalyzer.find_melodic_patterns                                     *)
(***************************************************************************)
\* patterns[key].append(entry) on the defaultdict
Append2(patterns, key, entry) ==
    IF key \in DOMAIN patterns
    THEN [patterns EXCEPT ![key] = Append(@, entry)]
    ELSE patterns @@ (key :> <<entry>>)

KeyLen(patterns, key) ==
    IF key \in DOMAIN patterns THEN Len(patterns[key]) ELSE 0

Occurrence(n, gch_id, voice_idx, first, last) ==
    IntStr(n) \o "." \o gch_id \o "." \o IntStr(voice_idx) \o "."
        \o first \o "-" \o last

RECURSIVE ConsecutiveFrom(_, _, _)
ConsecutiveFrom(notes, interval_name, i) ==
    IF i >= Len(notes) - 1 THEN <<>>
    ELSE (IF /\ IntervalName(At(notes, i), At(notes, i + 1)) = interval_name
             /\ HasQnr(At(notes, i))
             /\ HasQnr(At(notes, i + 1))
          THEN <<(<<Qnr(At(notes, i)), Qnr(At(notes, i + 1))>>)>>
          ELSE <<>>)
            \o ConsecutiveFrom(notes, interval_name, i + 1)

check_consecutive_notes(notes, interval_name) ==
    ConsecutiveFrom(notes, interval_name, 0)

RECURSIVE AppendLocations(_, _, _, _, _, _)
AppendLocations(patterns, pattern, locations, idx, gch_id, voice_idx) ==
    IF idx > Len(locations) THEN patterns
    ELSE AppendLocations(
            Append2(patterns, pattern,
                    Occurrence(idx, gch_id, voice_idx,
                               locations[idx][1], locations[idx][2])),
            pattern, locations, idx + 1, gch_id, voice_idx)

MelodicIntervalNames == <<"P4", "M3", "m3">>

RECURSIVE MelodicIntervals(_, _, _, _, _)
MelodicIntervals(patterns, notes, k, gch_id, voice_idx) ==
    IF k > Len(MelodicIntervalNames) THEN patterns
    ELSE MelodicIntervals(
            AppendLocations(patterns, MelodicIntervalNames[k],
                check_consecutive_notes(notes, MelodicIntervalNames[k]),
                1, gch_id, voice_idx),
            notes, k + 1, gch_id, voice_idx)

HasFifthBySemitones(notes, start_idx) ==
    /\ start_idx + 4 < Len(notes)
    /\ Abs(Semitones(At(notes, start_idx), At(notes, start_idx + 4))) = 7

\* has_fifth of check_tetrachord
HasFifth(notes, start_idx) ==
    /\ start_idx + 4 < Len(notes)
    /\ IntervalName(At(notes, start_idx), At(notes, start_idx + 4)) = "P5"

\* check_tetrachord: <<type, has_fifth>>, type "None" when nothing matches
check_tetrachord(notes, start_idx) ==
    IF start_idx + 3 >= Len(notes) THEN <<"None", FALSE>>
    ELSE LET intervals ==
                [i \in 1..3 |-> Semitones(At(notes, start_idx + i - 1),
                                          At(notes, start_idx + i))]
             has_fifth == HasFifth(notes, start_idx)
         IN  CASE intervals = <<2, 2, 1>> -> <<"major", has_fifth>>
               [] intervals = <<2, 1, 2>> -> <<"minor", has_fifth>>
               [] intervals = <<1, 3, 1>> -> <<"phrygian", has_fifth>>
               [] intervals = <<2, 2, 2>> -> <<"lydian", has_fifth>>
               [] OTHER -> <<"None", FALSE>>

EmitWithoutFifthAnyTail(notes, i) ==
    (i + 4 < Len(notes)) => IntervalName(At(notes, i), At(notes, i + 4)) # "P5"

\* the else branch of the emission rule: a note at i+4 that forms no P5
EmitWithoutFifth(notes, i) ==
    /\ i + 4 < Len(notes)
    /\ IntervalName(At(notes, i), At(notes, i + 4)) # "P5"

\* one iteration of the tetrachord loop
TetrachordAt(patterns, notes, i, gch_id, voice_idx) ==
    LET ct == check_tetrachord(notes, i)
        tetrachord_type == ct[1]
        has_fifth == ct[2]
    IN  IF tetrachord_type = "None" THEN patterns
        ELSE IF ~(\A k \in i..(i + 3) : HasQnr(At(notes, k))) THEN patterns
        ELSE LET with_fifth ==
                    /\ has_fifth
                    /\ i + 4 < Len(notes)
                    /\ HasQnr(At(notes, i + 4))
                 pattern_key ==
                    tetrachord_type \o "_tetrachord"
                        \o (IF with_fifth THEN "_fifth" ELSE "")
                 last ==
                    IF with_fifth THEN Qnr(At(notes, i + 4))
                    ELSE Qnr(At(notes, i + 3))
                 entry ==
                    Occurrence(KeyLen(patterns, pattern_key) + 1, gch_id,
                               voice_idx, Qnr(At(notes, i)), last)
             IN  IF has_fifth THEN Append2(patterns, pattern_key, entry)
                 ELSE IF EmitWithoutFifth(notes, i)
                      THEN Append2(patterns, pattern_key, entry)
                      ELSE patterns

RECURSIVE Tetrachords(_, _, _, _, _)
Tetrachords(patterns, notes, i, gch_id, voice_idx) ==
    IF i >= Len(notes) THEN patterns
    ELSE Tetrachords(TetrachordAt(patterns, notes, i, gch_id, voice_idx),
                     notes, i + 1, gch_id, voice_idx)

\* the body of the loop over the voices
PatternsOfVoice(patterns, voice, gch_id, voice_idx) ==
    LET notes == get_notes_in_voice(voice)
    IN  Tetrachords(MelodicIntervals(patterns, notes, 1, gch_id, voice_idx),
                    notes, 0, gch_id, voice_idx)

EmptyPatterns == [k \in {} |-> <<>>]

RECURSIVE PatternsFrom(_, _, _, _)
PatternsFrom(patterns, voices, gch_id, voice_idx) ==
    IF voice_idx > Len(voices) THEN patterns
    ELSE PatternsFrom(
            PatternsOfVoice(patterns, voices[voice_idx], gch_id, voice_idx),
            voices, gch_id, voice_idx + 1)

\* voices: <<top, middle, bass>>, the insertion order of self.voices
find_melodic_patterns(voices, gch_id) ==
    PatternsFrom(EmptyPatterns, voices, gch_id, 1)

(***************************************************************************)
(* ChantAnalyzer.get_full_modes                                            *)
(***************************************************************************)
VoiceNames == <<"top", "middle", "bass">>

Last(s) == s[Len(s)]

EmptyDict == [k \in {} |-> ""]

RECURSIVE FullVoiceModes(_, _, _, _)
FullVoiceModes(modes, voices, k, order) ==
    IF k > Len(voices) THEN modes
    ELSE LET notes == get_notes_in_voice(voices[k])
         IN  FullVoiceModes(
                IF notes # <<>>
                THEN modes @@ ((VoiceNames[k] \o "_mode")
                                 :> extract_mode(notes, Last(notes), order))
                ELSE modes,
                voices, k + 1, order)

get_full_modes(voices, order) ==
    LET modes == FullVoiceModes(EmptyDict, voices, 1, order)
        all_voice_notes ==
            get_notes_in_voice(voices[1]) \o get_notes_in_voice(voices[2])
                \o get_notes_in_voice(voices[3])
        bass_notes == get_notes_in_voice(voices[3])
    IN  IF all_voice_notes # <<>> /\ bass_notes # <<>>
        THEN modes @@ ("combined_mode"
                         :> extract_mode(all_voice_notes, Last(bass_notes), order))
        ELSE modes

(***************************************************************************)
(* ChantAnalyzer.get_mukhli_modes                                          *)
(***************************************************************************)
\* voice.measure(i): the measure numbered i, or None
MeasureOf(voice, i) == IF i <= Len(voice) THEN voice[i] ELSE NoMeasure

\* list(self.voices['top'].measures(1, None))
TopMeasures(voices) == SelectSeq(voices[1], LAMBDA m : m.exists)

FinalNoteBySemitones(voice_name, notes, bass_measure) ==
    IF /\ voice_name # "bass"
       /\ bass_measure.exists
       /\ bass_measure.notes # <<>>
       /\ Abs(Semitones(Last(bass_measure.notes), Last(notes))) % 12 = 7
    THEN Last(bass_measure.notes)
    ELSE Last(notes)

\* the center of one voice in one measure: its last note, or the bass's last
\* note when the two form a perfect fifth
FinalNote(voice_name, notes, bass_measure) ==
    IF /\ voice_name # "bass"
       /\ bass_measure.exists
       /\ bass_measure.notes # <<>>
       /\ IntervalName(Last(bass_measure.notes), Last(notes)) = "P5"
    THEN Last(bass_measure.notes)
    ELSE Last(notes)

RECURSIVE MeasureVoiceModes(_, _, _, _, _)
MeasureVoiceModes(measure_data, voices, i, k, order) ==
    IF k > Len(voices) THEN measure_data
    ELSE LET voice_measure == MeasureOf(voices[k], i)
             notes == voice_measure.notes
         IN  MeasureVoiceModes(
                IF voice_measure.exists /\ notes # <<>>
                THEN measure_data @@
                        ((VoiceNames[k] \o "_mode")
                           :> extract_mode(notes,
                                  FinalNote(VoiceNames[k], notes,
                                            MeasureOf(voices[3], i)),
                                  order))
                ELSE measure_data,
                voices, i, k + 1, order)

MeasureNotes(voice, i) ==
    IF MeasureOf(voice, i).exists THEN MeasureOf(voice, i).notes ELSE <<>>

\* measure_data of measure i: the voices' modes and the combined mode
MeasureData(voices, i, order) ==
    LET measure_data == MeasureVoiceModes(EmptyDict, voices, i, 1, order)
        all_notes ==
            MeasureNotes(voices[1], i) \o MeasureNotes(voices[2], i)
                \o MeasureNotes(voices[3], i)
        bass_notes == MeasureNotes(voices[3], i)
        center_note ==
            IF bass_notes # <<>> THEN Last(bass_notes) ELSE Last(all_notes)
    IN  IF all_notes # <<>>
        THEN measure_data @@
                ("combined_mode" :> extract_mode(all_notes, center_note, order))
        ELSE measure_data

get_mukhli_modes(voices, order) ==
    [i \in 1..Len(TopMeasures(voices)) |-> MeasureData(voices, i, order)]

(***************************************************************************)
(* ChantAnalyzer.__init__ and process_chant_files                          *)
(***************************************************************************)
\* a file of the input directory: its name, whether music21 parses it, and
\* the parts of the parsed score
File(filename, parses, parts) ==
    [filename |-> filename, parses |-> parses, parts |-> parts]

\* filename.endswith('.xml')
EndsWithXml(filename) ==
    /\ Len(filename) >= 4
    /\ SubSeq(filename, Len(filename) - 3, Len(filename)) = ".xml"

\* ChantAnalyzer(path) raises: converter.parse fails, parts[2] or
\* filename.split('_')[1] is out of range
AnalyzerRaises(file) ==
    \/ ~file.parses
    \/ Len(file.parts) < 3
    \/ Len(SplitBy(file.filename, "_")) < 2

extract_gch_id(filename) == SplitBy(filename, "_")[2]

extract_voices(file) == SubSeq(file.parts, 1, 3)

PadNothing(mukhli_modes, max) == mukhli_modes

\* while len(mukhli_modes) < max_mukhlis: mukhli_modes.append({})
Pad(mukhli_modes, max) ==
    IF Len(mukhli_modes) >= max THEN mukhli_modes
    ELSE mukhli_modes \o [k \in 1..(max - Len(mukhli_modes)) |-> EmptyDict]

Max(a, b) == IF a > b THEN a ELSE b

MukhliVoices == <<"combined", "top", "middle", "bass">>

\* mukhli_columns: <<measure slot, voice>> stands for 'mukhli_{i}_{voice}_mode'
mukhli_columns(max) ==
    [c \in 1..(4 * max) |-> <<((c - 1) \div 4) + 1, MukhliVoices[((c - 1) % 4) + 1]>>]

\* measure.get(key): None renders as the empty cell
DictGet(dict, key) == IF key \in DOMAIN dict THEN dict[key] ELSE ""

\* row_data of one chant of the per-measure table
MukhliRow(chant_number, mukhli_data) ==
    [chant_number |-> chant_number,
     cells |-> [col \in {<<i, MukhliVoices[v]>> : i \in 1..Len(mukhli_data), v \in 1..4}
                  |-> DictGet(mukhli_data[col[1]], col[2] \o "_mode")]]

AllKeys(dicts) == UNION {DOMAIN dicts[k] : k \in 1..Len(dicts)}

\* pd.DataFrame(list of dicts) with the chant numbers inserted: the columns
\* are the keys of all rows, a key a row lacks is a missing cell
Frame(dicts, numbers, missing) ==
    [columns |-> AllKeys(dicts),
     rows |-> [k \in 1..Len(dicts) |->
                 [chant_number |-> numbers[k],
                  cells |-> [c \in AllKeys(dicts) |->
                               IF c \in DOMAIN dicts[k] THEN dicts[k][c]
                               ELSE missing]]]]

\* the three tables written at the end of the run
Tables(numbers, full, mukhli, patterns, max) ==
    [full_modes |-> Frame(full, numbers, ""),
     mukhli_modes |->
        [columns |-> mukhli_columns(max),
         rows |-> [k \in 1..Len(mukhli) |-> MukhliRow(numbers[k], mukhli[k])]],
     musical_events |-> Frame(patterns, numbers, <<>>)]

(***************************************************************************)
(* Input universes                                                         *)
(***************************************************************************)
Lyr == <<"la", "1">>

Cs4 == Pit("C", 1, 4)

Df4 == Pit("D", -1, 4)

Gs4 == Pit("G", 1, 4)

Af4 == Pit("A", -1, 4)

Gs5 == Pit("G", 1, 5)

ModePitches == {Cs4, Df4, Gs4, Af4}

PitchNames == {PitchName(p) : p \in ModePitches}

\* every order in which the process may iterate a set of these names
HashOrders ==
    {o \in [1..Cardinality(PitchNames) -> PitchNames] :
        \A i, j \in DOMAIN o : o[i] = o[j] => i = j}

NoOrder == <<>>

ModeNotes == {Note(p, Lyr) : p \in ModePitches}

SeqsUpTo(S, n) == UNION {[1..k -> S] : k \in 0..n}

N(p) == Note(p, Lyr)

\* what the three voices may hold in one measure
TopMeasureChoices ==
    {Measure(<<N(Gs4)>>), Measure(<<N(Cs4), N(Af4)>>), Measure(<<>>)}

MiddleMeasureChoices == {Measure(<<N(Df4), N(Gs5)>>), Measure(<<N(Df4)>>)}

BassMeasureChoices == {Measure(<<N(Gs4), N(Cs4)>>), Measure(<<>>), NoMeasure}

GmInputs ==
    UNION {{<<t, m, b>> : t \in [1..n -> TopMeasureChoices],
                          m \in [1..n -> MiddleMeasureChoices],
                          b \in [1..n -> BassMeasureChoices]} : n \in 0..MaxMeasures}

\* melodies of find_melodic_patterns' voices
Nat4(step) == Pit(step, 0, 4)

Melodies ==
    { <<Nat4("C"), Nat4("D"), Nat4("E"), Nat4("F"), Nat4("G"), Nat4("A")>>,
      <<Nat4("D"), Nat4("E"), Nat4("F"), Nat4("G"), Nat4("A")>>,
      <<Nat4("C"), Nat4("D"), Nat4("E"), Nat4("F"), Nat4("A")>>,
      <<Nat4("C"), Nat4("D"), Nat4("E"), Nat4("F"), Pit("F", 2, 4)>>,
      <<Nat4("E"), Nat4("F"), Pit("G", 1, 4), Nat4("A"), Nat4("B")>>,
      <<Nat4("F"), Nat4("G"), Nat4("A"), Nat4("B"), Pit("C", 0, 5)>>,
      <<Nat4("C"), Nat4("E"), Nat4("G"), Pit("C", 0, 5)>> }

Min(a, b) == IF a < b THEN a ELSE b

\* a voice: the first n notes of a melody; note k carries its position as
\* QNR, except the note at position lacking, which has one annotation only
VoiceOf(melody, n, lacking) ==
    <<Measure([k \in 1..n |->
                 Note(melody[k],
                      IF k = lacking THEN <<"la">> ELSE <<"la", IntStr(k)>>)])>>

AllVoices ==
    {VoiceOf(m, Min(n, Len(m)), Min(lacking, Len(m))) :
        m \in Melodies, n \in 4..MaxNotes, lacking \in 0..MaxNotes}

FewVoices ==
    { <<Measure(<<>>)>>,
      VoiceOf(<<Nat4("C"), Nat4("D"), Nat4("E"), Nat4("F"), Nat4("G")>>, 5, 0) }

FpInputs ==
    {v \in [1..3 -> AllVoices \cup FewVoices] :
        \E free \in 1..3 : \A k \in (1..3) \ {free} : v[k] \in FewVoices}

\* the files the input directory may hold, in sorted filename order
ChantA ==
    << <<Measure(<<N(Gs4), N(Pit("C", 1, 5))>>)>>,
       <<Measure(<<N(Cs4)>>)>>,
       <<Measure(<<N(Cs4)>>)>> >>

ChantB ==
    << <<Measure(<<N(Cs4), N(Df4)>>), Measure(<<N(Gs4)>>)>>,
       <<Measure(<<N(Df4)>>), Measure(<<N(Af4)>>)>>,
       <<Measure(<<N(Cs4)>>), Measure(<<N(Cs4)>>)>> >>

Catalogue ==
    << File("GCH_001_a.xml", TRUE, ChantA),
       File("GCH_002_b.xml", TRUE, ChantB),
       File("GCH_003_c.xml", FALSE, <<>>),
       File("GCH_004_d.xml", TRUE, SubSeq(ChantA, 1, 2)),
       File("chant.xml", TRUE, ChantA),
       File("notes.txt", FALSE, <<>>) >>

RECURSIVE Listing(_, _)
Listing(S, k) ==
    IF k > Len(Catalogue) THEN <<>>
    ELSE (IF k \in S THEN <<Catalogue[k]>> ELSE <<>>) \o Listing(S, k + 1)

Directories ==
    {Listing(S, 1) : S \in {T \in SUBSET (1..Len(Catalogue)) : Cardinality(T) <= MaxFiles}}

(***************************************************************************)
(* Specification of extract_mode                                           *)
(***************************************************************************)
EmIdle ==
    /\ em_notes = <<>>
    /\ em_center = N(Cs4)
    /\ em_result = ""
    /\ em_done = TRUE

GmIdle ==
    /\ gm_voices = <<>>
    /\ gm_result = <<>>
    /\ gm_done = TRUE

FpIdle ==
    /\ fp_voices = <<>>
    /\ fp_gch_id = ""
    /\ fp_voice_idx = 0
    /\ fp_patterns = EmptyPatterns

NoOutput == [written |-> FALSE]

DrIdle ==
    /\ dirExists = FALSE
    /\ directory = <<>>
    /\ run = 0
    /\ phase = "idle"
    /\ pos = 0
    /\ max_mukhlis = 0
    /\ chant_numbers = <<>>
    /\ full_modes_data = <<>>
    /\ mukhli_modes_data = <<>>
    /\ patterns_data = <<>>
    /\ output = <<>>

EmInit ==
    /\ hashOrder \in HashOrders
    /\ em_notes \in SeqsUpTo(ModeNotes, MaxLen)
    /\ em_center \in ModeNotes
    /\ em_result = ""
    /\ em_done = FALSE
    /\ GmIdle /\ FpIdle /\ DrIdle

ExtractMode ==
    /\ ~em_done
    /\ em_result' = extract_mode(em_notes, em_center, hashOrder)
    /\ em_done' = TRUE
    /\ UNCHANGED <<hashOrder, em_notes, em_center, gmVars, fpVars, drVars>>

EmNext == ExtractMode

SpecMode == EmInit /\ [][EmNext]_vars

(***************************************************************************)
(* Specification of get_mukhli_modes                                       *)
(***************************************************************************)
GmInit ==
    /\ hashOrder \in HashOrders
    /\ gm_voices \in GmInputs
    /\ gm_result = <<>>
    /\ gm_done = FALSE
    /\ EmIdle /\ FpIdle /\ DrIdle

GetMukhliModes ==
    /\ ~gm_done
    /\ gm_result' = get_mukhli_modes(gm_voices, hashOrder)
    /\ gm_done' = TRUE
    /\ UNCHANGED <<hashOrder, gm_voices, emVars, fpVars, drVars>>

GmNext == GetMukhliModes

SpecMukhli == GmInit /\ [][GmNext]_vars

(***************************************************************************)
(* Specification of find_melodic_patterns                                  *)
(***************************************************************************)
FpInit ==
    /\ hashOrder = NoOrder
    /\ fp_voices \in FpInputs
    /\ fp_gch_id = "001"
    /\ fp_voice_idx = 0
    /\ fp_patterns = EmptyPatterns
    /\ EmIdle /\ GmIdle /\ DrIdle

\* one iteration of the loop over self.voices
ScanVoice ==
    /\ fp_voice_idx < Len(fp_voices)
    /\ fp_voice_idx' = fp_voice_idx + 1
    /\ fp_patterns' = PatternsOfVoice(fp_patterns, fp_voices[fp_voice_idx + 1],
                                      fp_gch_id, fp_voice_idx + 1)
    /\ UNCHANGED <<hashOrder, fp_voices, fp_gch_id, emVars, gmVars, drVars>>

FpNext == ScanVoice

SpecPatterns == FpInit /\ [][FpNext]_vars

(***************************************************************************)
(* Specification of the corpus run: __main__ and process_chant_files,      *)
(* run twice over the same directory                                       *)
(***************************************************************************)
DrInit ==
    /\ hashOrder \in HashOrders
    /\ dirExists \in BOOLEAN
    /\ directory \in (IF dirExists THEN Directories ELSE {<<>>})
    /\ run = 1
    /\ phase = "main"
    /\ pos = 0
    /\ max_mukhlis = 0
    /\ chant_numbers = <<>>
    /\ full_modes_data = <<>>
    /\ mukhli_modes_data = <<>>
    /\ patterns_data = <<>>
    /\ output = <<NoOutput, NoOutput>>
    /\ EmIdle /\ GmIdle /\ FpIdle

Fixed == <<dirExists, directory, run, emVars, gmVars, fpVars>>

\* if os.path.exists("data"): process_chant_files("data") else: print(...)
Main ==
    /\ phase = "main"
    /\ phase' = IF dirExists THEN "first" ELSE "nodir"
    /\ UNCHANGED <<hashOrder, pos, max_mukhlis, chant_numbers, full_modes_data,
                   mukhli_modes_data, patterns_data, output, Fixed>>

\* one iteration of the first loop over the sorted listing
FirstPassFile ==
    /\ phase = "first"
    /\ pos < Len(directory)
    /\ LET file == directory[pos + 1]
       IN  IF ~EndsWithXml(file.filename)
           THEN pos' = pos + 1 /\ UNCHANGED <<phase, max_mukhlis>>
           ELSE IF AnalyzerRaises(file)
           THEN phase' = "raised" /\ UNCHANGED <<pos, max_mukhlis>>
           ELSE /\ max_mukhlis' =
                     Max(max_mukhlis,
                         Len(get_mukhli_modes(extract_voices(file), hashOrder)))
                /\ pos' = pos + 1
                /\ UNCHANGED phase
    /\ UNCHANGED <<hashOrder, chant_numbers, full_modes_data, mukhli_modes_data,
                   patterns_data, output, Fixed>>

StartSecondPass ==
    /\ phase = "first"
    /\ pos = Len(directory)
    /\ phase' = "second"
    /\ pos' = 0
    /\ UNCHANGED <<hashOrder, max_mukhlis, chant_numbers, full_modes_data,
                   mukhli_modes_data, patterns_data, output, Fixed>>

\* one iteration of the second loop over the sorted listing
SecondPassFile ==
    /\ phase = "second"
    /\ pos < Len(directory)
    /\ LET file == directory[pos + 1]
           voices == extract_voices(file)
       IN  IF ~EndsWithXml(file.filename)
           THEN /\ pos' = pos + 1
                /\ UNCHANGED <<phase, chant_numbers, full_modes_data,
                               mukhli_modes_data, patterns_data>>
           ELSE IF AnalyzerRaises(file)
           THEN /\ phase' = "raised"
                /\ UNCHANGED <<pos, chant_numbers, full_modes_data,
                               mukhli_modes_data, patterns_data>>
           ELSE /\ chant_numbers' =
                     Append(chant_numbers, SplitBy(file.filename, "_")[2])
                /\ full_modes_data' =
                     Append(full_modes_data, get_full_modes(voices, hashOrder))
                /\ mukhli_modes_data' =
                     Append(mukhli_modes_data,
                            Pad(get_mukhli_modes(voices, hashOrder), max_mukhlis))
                /\ patterns_data' =
                     Append(patterns_data,
                            find_melodic_patterns(voices,
                                                  extract_gch_id(file.filename)))
                /\ pos' = pos + 1
                /\ UNCHANGED phase
    /\ UNCHANGED <<hashOrder, max_mukhlis, output, Fixed>>

\* the three to_csv calls
WriteTables ==
    /\ phase = "second"
    /\ pos = Len(directory)
    /\ phase' = "written"
    /\ output' = [output EXCEPT ![run] =
                    [written |-> TRUE,
                     tables |-> Tables(chant_numbers, full_modes_data,
                                       mukhli_modes_data, patterns_data,
                                       max_mukhlis)]]
    /\ UNCHANGED <<hashOrder, pos, max_mukhlis, chant_numbers, full_modes_data,
                   mukhli_modes_data, patterns_data, Fixed>>

\* the program is started again, in a new process, on the unchanged directory
RunAgain ==
    /\ phase \in {"written", "raised", "nodir"}
    /\ run = 1
    /\ run' = 2
    /\ hashOrder' \in HashOrders
    /\ phase' = "main"
    /\ pos' = 0
    /\ max_mukhlis' = 0
    /\ chant_numbers' = <<>>
    /\ full_modes_data' = <<>>
    /\ mukhli_modes_data' = <<>>
    /\ patterns_data' = <<>>
    /\ UNCHANGED <<dirExists, directory, output, emVars, gmVars, fpVars>>

DrNext ==
    \/ Main
    \/ FirstPassFile
    \/ StartSecondPass
    \/ SecondPassFile
    \/ WriteTables
    \/ RunAgain

SpecDriver == DrInit /\ [][DrNext]_vars

(***************************************************************************)
(* Claims about extract_mode                                               *)
(***************************************************************************)
EmElems == Split(em_result)

EmCenterPc == PitchName(em_center.pitch)

\* C1: the elements of the result appear in non-decreasing order of
\* (semitone position - center's semitone position) mod 12, for every input.
C1_Ascending ==
    (em_done /\ em_notes # <<>>) =>
        \A i, j \in 1..Len(EmElems) :
            i < j => ModeKey(EmElems[i], EmCenterPc) <= ModeKey(EmElems[j], EmCenterPc)

\* C2: the first space-separated element of the result is the center's
\* pitch-class name, for every non-empty note sequence and every center.
C2_CenterFirst ==
    (em_done /\ em_notes # <<>>) =>
        (EmElems # <<>> /\ EmElems[1] = EmCenterPc)

\* a differently-named pitch class at the center's semitone position comes
\* before the center in the set's iteration order
C2_Witness ==
    /\ em_done
    /\ em_notes # <<>>
    /\ \E k \in 1..Len(em_notes) :
         LET x == PitchName(em_notes[k].pitch)
         IN  /\ x # EmCenterPc
             /\ ModeKey(x, EmCenterPc) = 0
             /\ ListIndex(hashOrder, x) < ListIndex(hashOrder, EmCenterPc)
    /\ EmElems[1] = EmCenterPc

\* C3: the elements of the result are exactly the distinct pitch-class names
\* of the sequence together with the center's name, each exactly once.
C3_Permutation ==
    (em_done /\ em_notes # <<>>) =>
        /\ SeqToSet(EmElems) = PitchClasses(em_notes, em_center)
        /\ Len(EmElems) = Cardinality(PitchClasses(em_notes, em_center))

\* the rotation moved a non-empty prefix behind the center
C3_Witness ==
    /\ em_done
    /\ Len(EmElems) >= 3
    /\ ~(EmCenterPc \in {PitchName(em_notes[k].pitch) : k \in 1..Len(em_notes)})
    /\ ModeKey(EmElems[Len(EmElems)], EmCenterPc) = 0
    /\ EmElems[Len(EmElems)] # EmCenterPc

(***************************************************************************)
(* Claims about find_melodic_patterns                                      *)
(***************************************************************************)
TetrachordKeys ==
    {q \o "_tetrachord" \o f :
        q \in {"major", "minor", "phrygian", "lydian"}, f \in {"", "_fifth"}}

\* the entries recorded so far under the tetrachord keys, each as
\* <<key, voice index, first QNR, last QNR>>
EntryOf(key, text) ==
    <<key,
      SplitBy(text, ".")[3],
      SplitBy(SplitBy(text, ".")[4], "-")[1],
      SplitBy(SplitBy(text, ".")[4], "-")[2]>>

TetrachordEntries ==
    UNION {{EntryOf(key, fp_patterns[key][k]) : k \in 1..Len(fp_patterns[key])} :
            key \in DOMAIN fp_patterns \cap TetrachordKeys}

FpNotes(v) == get_notes_in_voice(fp_voices[v])

\* the quality of the three semitone steps from note i (0-based), or "None"
QualityAt(notes, i) ==
    IF i + 3 >= Len(notes) THEN "None"
    ELSE LET t == <<PitchPs(At(notes, i + 1).pitch) - PitchPs(At(notes, i).pitch),
                    PitchPs(At(notes, i + 2).pitch) - PitchPs(At(notes, i + 1).pitch),
                    PitchPs(At(notes, i + 3).pitch) - PitchPs(At(notes, i + 2).pitch)>>
         IN  CASE t = <<2, 2, 1>> -> "major"
               [] t = <<2, 1, 2>> -> "minor"
               [] t = <<1, 3, 1>> -> "phrygian"
               [] t = <<2, 2, 2>> -> "lydian"
               [] OTHER -> "None"

\* a perfect fifth by name: four staff steps and seven semitones, same way
NamedP5(a, b) ==
    \/ /\ DiatonicNoteNum(b.pitch) - DiatonicNoteNum(a.pitch) = 4
       /\ PitchPs(b.pitch) - PitchPs(a.pitch) = 7
    \/ /\ DiatonicNoteNum(a.pitch) - DiatonicNoteNum(b.pitch) = 4
       /\ PitchPs(a.pitch) - PitchPs(b.pitch) = 7

\* the 0-based index in a scanned voice of the note carrying QNR q
QnrIndex(notes, q) ==
    CHOOSE i \in 0..(Len(notes) - 1) : HasQnr(At(notes, i)) /\ Qnr(At(notes, i)) = q

EntriesAt(v, i) ==
    {e \in TetrachordEntries :
        e[2] = IntStr(v) /\ e[3] = Qnr(At(FpNotes(v), i))}

\* C4: a classified tetrachord at i that has a note at i+4 and five annotated
\* notes is recorded exactly once: under '{quality}_tetrachord_fifth' with
\* range QNR(i)-QNR(i+4) when notes i and i+4 form a P5, and under
\* '{quality}_tetrachord' with range QNR(i)-QNR(i+3) otherwise.
C4_TetrachordFiled ==
    \A v \in 1..fp_voice_idx :
        \A i \in 0..(Len(FpNotes(v)) - 1) :
            LET notes == FpNotes(v)
                quality == QualityAt(notes, i)
            IN  (/\ quality # "None"
                 /\ i + 4 < Len(notes)
                 /\ \A k \in i..(i + 4) : HasQnr(At(notes, k)))
                =>
                EntriesAt(v, i) =
                    IF NamedP5(At(notes, i), At(notes, i + 4))
                    THEN {<<quality \o "_tetrachord_fifth", IntStr(v),
                            Qnr(At(notes, i)), Qnr(At(notes, i + 4))>>}
                    ELSE {<<quality \o "_tetrachord", IntStr(v),
                            Qnr(At(notes, i)), Qnr(At(notes, i + 3))>>}

\* a fully annotated tetrachord whose fifth note is seven semitones above
\* without being a fifth by name has been scanned and filed
C4_Witness ==
    \E v \in 1..fp_voice_idx :
        LET notes == FpNotes(v)
        IN  /\ Len(notes) = 5
            /\ QualityAt(notes, 0) = "major"
            /\ \A k \in 0..4 : HasQnr(At(notes, k))
            /\ Semitones(At(notes, 0), At(notes, 4)) = 7
            /\ ~NamedP5(At(notes, 0), At(notes, 4))
            /\ EntriesAt(v, 0) = {<<"major_tetrachord", IntStr(v), "1", "4">>}

\* C8: every recorded tetrachord occurrence has its four notes annotated,
\* and its fifth note too whenever notes i and i+4 form a perfect fifth.
C8_AllAnnotated ==
    \A v \in 1..fp_voice_idx :
        \A e \in {x \in TetrachordEntries : x[2] = IntStr(v)} :
            LET notes == FpNotes(v)
                i == QnrIndex(notes, e[3])
            IN  /\ \A k \in i..(i + 3) : HasQnr(At(notes, k))
                /\ (i + 4 < Len(notes) /\ NamedP5(At(notes, i), At(notes, i + 4)))
                      => HasQnr(At(notes, i + 4))

\* C10: an occurrence is recorded for start index i only if a note exists at
\* i+4; a tetrachord on the last four notes of a voice is never recorded.
C10_NoTrailing ==
    \A v \in 1..fp_voice_idx :
        \A e \in {x \in TetrachordEntries : x[2] = IntStr(v)} :
            QnrIndex(FpNotes(v), e[3]) + 4 < Len(FpNotes(v))

\* a fully annotated tetrachord on the last four notes has been scanned, and
\* another voice's tetrachord was recorded
C10_Witness ==
    /\ fp_voice_idx = 3
    /\ \E v \in 1..3 :
         LET notes == FpNotes(v)
         IN  /\ Len(notes) = 4
             /\ QualityAt(notes, 0) = "phrygian"
             /\ \A k \in 0..3 : HasQnr(At(notes, k))
             /\ EntriesAt(v, 0) = {}
    /\ TetrachordEntries # {}

(***************************************************************************)
(* Claims about get_mukhli_modes                                           *)
(***************************************************************************)
GmHasNotes(k, i) == MeasureNotes(gm_voices[k], i) # <<>>

GmLast(k, i) == Last(MeasureNotes(gm_voices[k], i))

\* the pitch-class name the mode of voice k in measure i starts with
GmCenterName(k, i) == Split(gm_result[i][VoiceNames[k] \o "_mode"])[1]

\* C9: for a non-bass voice with notes in measure i the center is the bass's
\* last note of the measure exactly when the bass has notes there and the
\* two last notes form an interval named P5; otherwise, and always for the
\* bass, the center is the voice's own last note of the measure.
C9_Center ==
    gm_done =>
        \A i \in 1..Len(gm_result) :
            \A k \in 1..3 :
                GmHasNotes(k, i) =>
                    /\ (VoiceNames[k] \o "_mode") \in DOMAIN gm_result[i]
                    /\ GmCenterName(k, i) =
                          IF /\ k # 3
                             /\ GmHasNotes(3, i)
                             /\ NamedP5(GmLast(3, i), GmLast(k, i))
                          THEN PitchName(GmLast(3, i).pitch)
                          ELSE PitchName(GmLast(k, i).pitch)

\* one measure where the top voice ends a perfect fifth above the bass and
\* takes the bass's note, while the middle voice ends a twelfth above it and
\* keeps its own; another where the top ends a diminished sixth above
C9_Witness ==
    /\ gm_done
    /\ Len(gm_result) = 2
    /\ \E i \in 1..2 :
         /\ GmHasNotes(1, i) /\ GmHasNotes(2, i) /\ GmHasNotes(3, i)
         /\ NamedP5(GmLast(3, i), GmLast(1, i))
         /\ GmCenterName(1, i) = "C#"
         /\ Semitones(GmLast(3, i), GmLast(2, i)) = 19
         /\ GmCenterName(2, i) = "G#"
    /\ \E i \in 1..2 :
         /\ GmHasNotes(1, i) /\ GmHasNotes(3, i)
         /\ Semitones(GmLast(3, i), GmLast(1, i)) = 7
         /\ GmCenterName(1, i) = "A-"

(***************************************************************************)
(* Claims about process_chant_files                                        *)
(***************************************************************************)
XmlFiles == SelectSeq(directory, LAMBDA f : EndsWithXml(f.filename))

\* C5: after the second pass every chant's list of per-measure records has
\* length exactly max_mukhlis: its own records in measure order followed by
\* empty records, and every row of the per-measure table has the same
\* 4 * max_mukhlis mode columns.
C5_Padded ==
    /\ (phase = "second" /\ pos = Len(directory)) =>
          \A k \in 1..Len(mukhli_modes_data) :
              LET own == get_mukhli_modes(extract_voices(XmlFiles[k]), hashOrder)
                  data == mukhli_modes_data[k]
              IN  /\ Len(data) = max_mukhlis
                  /\ Len(own) <= max_mukhlis
                  /\ SubSeq(data, 1, Len(own)) = own
                  /\ \A j \in (Len(own) + 1)..max_mukhlis : DOMAIN data[j] = {}
    /\ (phase = "written") =>
          LET table == output[run].tables.mukhli_modes
          IN  /\ Len(table.columns) = 4 * max_mukhlis
              /\ Len(table.rows) = Len(XmlFiles)
              /\ \A k \in 1..Len(table.rows) :
                    DOMAIN table.rows[k].cells = SeqToSet(table.columns)

\* a one-measure chant and a two-measure chant were both written: the first
\* was padded with one empty record
C5_Witness ==
    /\ phase = "written"
    /\ max_mukhlis = 2
    /\ Len(mukhli_modes_data) = 2
    /\ DOMAIN mukhli_modes_data[1][1] # {}
    /\ DOMAIN mukhli_modes_data[1][2] = {}
    /\ DOMAIN mukhli_modes_data[2][2] # {}

\* C6: two runs over the same unchanged directory write identical tables.
C6_SameOutput ==
    (run = 2 /\ phase = "written" /\ output[1].written) => output[2] = output[1]

\* C7: when the input directory exists, no failure on a single file ends the
\* run before the three tables are written.
C7_NoAbort == dirExists => phase # "raised"

====
